---- MODULE Spec2Model ----
(***************************************************************************)
(* Model of the natural-language-to-SQL chat pipeline of src/app.py:       *)
(* get_sql_query (prompt -> model call -> SQL extraction),                 *)
(* execute_sql_query (keyword security check -> database call),            *)
(* get_natural_language_response (summarising model call) and the          *)
(* module-level chat handler that sequences them and keeps                 *)
(* st.session_state.messages.                                              *)
(*                                                                         *)
(* Text is a sequence of one-character strings, so that upper-casing,      *)
(* substring search, regular-expression search and strip() are computed    *)
(* character by character as Python computes them.                         *)
(***************************************************************************)
EXTENDS Integers, Sequences, FiniteSets, TLC

\* ------------------------------------------------------------------ bounds
MaxBodyFrags == 3
MaxQuestions == 2
MaxRows == 1
MaxSqlFrags == 3
MaxRespFrags == 5

\* ------------------------------------------------------- text primitives
\* the upper-case form of each lower-case ASCII letter
UpperOf ==
  [a |-> "A", b |-> "B", c |-> "C", d |-> "D", e |-> "E", f |-> "F",
   g |-> "G", h |-> "H", i |-> "I", j |-> "J", k |-> "K", l |-> "L",
   m |-> "M", n |-> "N", o |-> "O", p |-> "P", q |-> "Q", r |-> "R",
   s |-> "S", t |-> "T", u |-> "U", v |-> "V", w |-> "W", x |-> "X",
   y |-> "Y", z |-> "Z"]

ToUpperChar(c) == IF c \in DOMAIN UpperOf THEN UpperOf[c] ELSE c

RECURSIVE Upper(_)
\* str.upper()
Upper(s) ==
  IF s = <<>> THEN <<>> ELSE <<ToUpperChar(Head(s))>> \o Upper(Tail(s))

IsWhitespace(c) == c \in {" ", "\n", "\t", "\r"}

\* str.strip()
Strip(s) ==
  IF \A i \in 1..Len(s) : IsWhitespace(s[i]) THEN <<>>
  ELSE SubSeq(s,
         CHOOSE i \in 1..Len(s) :
           ~IsWhitespace(s[i]) /\ \A j \in 1..(i - 1) : IsWhitespace(s[j]),
         CHOOSE i \in 1..Len(s) :
           ~IsWhitespace(s[i]) /\ \A j \in (i + 1)..Len(s) : IsWhitespace(s[j]))

OccursAt(s, pat, i) ==
  /\ i >= 1
  /\ i + Len(pat) - 1 <= Len(s)
  /\ \A j \in 1..Len(pat) : s[i + j - 1] = pat[j]

\* a match of pat at i under re.IGNORECASE
OccursAtIgnoreCase(s, pat, i) ==
  /\ i >= 1
  /\ i + Len(pat) - 1 <= Len(s)
  /\ \A j \in 1..Len(pat) : ToUpperChar(s[i + j - 1]) = ToUpperChar(pat[j])

\* Python's  pat in s
Contains(s, pat) == \E i \in 1..Len(s) : OccursAt(s, pat, i)

\* str.startswith
StartsWith(s, pat) == OccursAt(s, pat, 1)

\* position of the leftmost occurrence of pat in s at or after from; 0 if none
FindFrom(s, pat, from) ==
  IF \E i \in from..Len(s) : OccursAt(s, pat, i)
  THEN CHOOSE i \in from..Len(s) :
         OccursAt(s, pat, i) /\ \A j \in from..(i - 1) : ~OccursAt(s, pat, j)
  ELSE 0

FindFromIgnoreCase(s, pat, from) ==
  IF \E i \in from..Len(s) : OccursAtIgnoreCase(s, pat, i)
  THEN CHOOSE i \in from..Len(s) :
         /\ OccursAtIgnoreCase(s, pat, i)
         /\ \A j \in from..(i - 1) : ~OccursAtIgnoreCase(s, pat, j)
  ELSE 0

\* Optional values: None, or Some(v)
None == [some |-> FALSE, val |-> <<>>]

Some(v) == [some |-> TRUE, val |-> v]

\* ------------------------------------------------------------- SQL parsing
\* the backquote character (the string lexer of TLA+ does not accept the
\* character itself inside a string)
Backquote == "backquote"

FenceOpen == <<Backquote, Backquote, Backquote, "s", "q", "l">>

FenceClose == <<Backquote, Backquote, Backquote>>

Newline == <<"\n">>

FenceOpenNl == FenceOpen \o Newline

NlFenceClose == Newline \o FenceClose

SelectWord == <<"S","E","L","E","C","T">>

Semicolon == <<";">>

\* re.search(r"```sql\n(.*?)\n```", text, re.DOTALL): group(1) of the leftmost
\* match, the closing fence being the first one after the opening fence
FencedMatch(text) ==
  LET o == FindFrom(text, FenceOpenNl, 1)
  IN  IF o = 0 THEN None
      ELSE LET c == FindFrom(text, NlFenceClose, o + Len(FenceOpenNl))
           IN  IF c = 0 THEN None
               ELSE Some(SubSeq(text, o + Len(FenceOpenNl), c - 1))

SelectMatch_noTerminator(text) ==
  LET o == FindFromIgnoreCase(text, SelectWord, 1)
  IN  IF o = 0 THEN None ELSE Some(SubSeq(text, o, Len(text)))

\* re.search(r"SELECT.*?;", text, re.DOTALL | re.IGNORECASE): group(0), from
\* the leftmost SELECT to the first semicolon after it
SelectMatch(text) ==
  LET o == FindFromIgnoreCase(text, SelectWord, 1)
  IN  IF o = 0 THEN None
      ELSE LET c == FindFrom(text, Semicolon, o + Len(SelectWord))
           IN  IF c = 0 THEN None
               ELSE Some(SubSeq(text, o, c))

\* .strip() of the matched text (lines 177 and 182)
StripMatch(m) == IF m.some THEN Some(Strip(m.val)) ELSE None

\* lines 175-185: the fenced block if there is one, else the SELECT...;
\* fallback, else None
ExtractSql(text) ==
  CHOOSE sql_query \in
    {StripMatch(m) :
       m \in {IF FencedMatch(text).some THEN FencedMatch(text)
                                        ELSE SelectMatch(text)}} : TRUE

\* get_sql_query: gen is the outcome of model.generate_content, either a
\* response text or an exception; the whole body is inside try/except Exception
get_sql_query(gen) ==
  IF gen.raises
  THEN [ret |-> None, exc |-> FALSE]
  ELSE [ret |-> ExtractSql(gen.text), exc |-> FALSE]

\* ---------------------------------------------------------- security check
dangerous_keywords ==
  << <<"D","E","L","E","T","E">>,
     <<"U","P","D","A","T","E">>,
     <<"I","N","S","E","R","T">>,
     <<"D","R","O","P">>,
     <<"A","L","T","E","R">>,
     <<"T","R","U","N","C","A","T","E">>,
     <<"C","R","E","A","T","E">>,
     <<"G","R","A","N","T">>,
     <<"R","E","V","O","K","E">> >>

Space == <<" ">>

KeywordMatches_caseSensitive(keyword, sql_query) ==
  \E spaced \in {Space \o keyword \o Space}, leading \in {keyword \o Space} :
    Contains(sql_query, spaced) \/ StartsWith(sql_query, leading)

KeywordMatches_substring(keyword, sql_query) ==
  \E query_upper \in {Upper(sql_query)} : Contains(query_upper, keyword)

\* lines 196 and 198:
\*   f' {keyword} ' in query_upper or query_upper.startswith(keyword + ' ')
KeywordMatches(keyword, sql_query) ==
  \E query_upper \in {Upper(sql_query)},
     spaced \in {Space \o keyword \o Space},
     leading \in {keyword \o Space} :
    Contains(query_upper, spaced) \/ StartsWith(query_upper, leading)

\* lines 197-200: index in dangerous_keywords of the keyword the loop stops
\* at (the first one in list order that matches); 0 when the loop completes
BlockingKeyword(sql_query) ==
  CHOOSE k \in 0..Len(dangerous_keywords) :
    /\ k # 0 => KeywordMatches(dangerous_keywords[k], sql_query)
    /\ \A j \in 1..(IF k = 0 THEN Len(dangerous_keywords) ELSE k - 1) :
         ~KeywordMatches(dangerous_keywords[j], sql_query)

\* ------------------------------------------------- user-facing messages
\* line 353
RephraseMsg == "I couldn't generate an SQL query for your question. Please try rephrasing it."

\* line 347
NoResultsMsg == "The query returned no results. Please check your question or the data."

\* line 238
ApologyMsg == "Sorry, I encountered an issue while summarizing the data."

\* one thing rendered to the user inside the assistant chat message: kind is
\* "error" for st.error and "markdown" for st.markdown; kw is the index of the
\* dangerous keyword an "Execution blocked" error names (0 otherwise)
Rendered(kind, what, kw, detail) ==
  [kind |-> kind, what |-> what, kw |-> kw, detail |-> detail]

\* line 199
BlockedError(k) == Rendered("error", "Execution blocked", k, "")

\* line 207: the text of the exception e is part of the message
ExecutionError(e) == Rendered("error", "An error occurred while executing the query", 0, e)

\* line 237
SummaryError(e) == Rendered("error", "An error occurred while generating the response", 0, e)

\* ------------------------------------------------------- external outcomes
\* outcome of model.generate_content: it raises, or returns response.text
ModelRaises == [raises |-> TRUE, text |-> <<>>]

ModelReturns(t) == [raises |-> FALSE, text |-> t]

\* outcome of engine.connect() / pd.read_sql_query: the connection fails, the
\* store rejects the statement, or the store returns nrows rows
StoreOutcomes ==
  {[kind |-> "connect_error", nrows |-> 0, msg |-> "connection refused"],
   [kind |-> "sql_error", nrows |-> 0, msg |-> "column does not exist"]}
  \cup {[kind |-> "rows", nrows |-> n, msg |-> ""] : n \in 0..MaxRows}

NotCalled == [kind |-> "not_called", nrows |-> 0, msg |-> ""]

\* a DataFrame is modelled by its number of rows
NoFrame == [none |-> TRUE, nrows |-> 0]

Frame(n) == [none |-> FALSE, nrows |-> n]

execute_sql_query_noReturn(sql_query, db) ==
  LET k == BlockingKeyword(sql_query)
      errs == IF k # 0 THEN <<BlockedError(k)>> ELSE <<>>
  IN  IF db.kind = "rows"
      THEN [ret |-> Frame(db.nrows), errors |-> errs, blocked |-> k,
            checks |-> 1, connects |-> 1, statements |-> 1, exc |-> FALSE]
      ELSE [ret |-> NoFrame, errors |-> errs \o <<ExecutionError(db.msg)>>,
            blocked |-> k, checks |-> 1, connects |-> 1,
            statements |-> IF db.kind = "sql_error" THEN 1 ELSE 0, exc |-> FALSE]

execute_sql_query_swallow(sql_query, db) ==
  LET k == BlockingKeyword(sql_query)
  IN  IF k # 0
      THEN [ret |-> NoFrame, errors |-> <<BlockedError(k)>>, blocked |-> k,
            checks |-> 1, connects |-> 0, statements |-> 0, exc |-> FALSE]
      ELSE [ret |-> Frame(db.nrows), errors |-> <<>>, blocked |-> 0,
            checks |-> 1, connects |-> 1,
            statements |-> IF db.kind = "connect_error" THEN 0 ELSE 1,
            exc |-> FALSE]

\* execute_sql_query (lines 190-208) against the store outcome db: what it
\* returns, the st.error calls it makes, the keyword the security check
\* stopped at, how often the security check ran, how many connections were
\* requested and statements sent, and whether an exception leaves the function
execute_sql_query(sql_query, db) ==
  LET k == BlockingKeyword(sql_query)
  IN  IF k # 0
      THEN [ret |-> NoFrame, errors |-> <<BlockedError(k)>>, blocked |-> k,
            checks |-> 1, connects |-> 0, statements |-> 0, exc |-> FALSE]
      ELSE IF db.kind = "rows"
      THEN [ret |-> Frame(db.nrows), errors |-> <<>>, blocked |-> 0,
            checks |-> 1, connects |-> 1, statements |-> 1, exc |-> FALSE]
      ELSE [ret |-> NoFrame, errors |-> <<ExecutionError(db.msg)>>, blocked |-> 0,
            checks |-> 1, connects |-> 1,
            statements |-> IF db.kind = "sql_error" THEN 1 ELSE 0, exc |-> FALSE]

get_natural_language_response_uncaught(user_question, result_df, gen) ==
  IF gen.raises
  THEN [ret |-> "", errors |-> <<>>, exc |-> TRUE]
  ELSE [ret |-> gen.text, errors |-> <<>>, exc |-> FALSE]

\* get_natural_language_response (lines 210-238): gen is the outcome of the
\* summarising model call, whose text is a message string
get_natural_language_response(user_question, result_df, gen) ==
  IF gen.raises
  THEN [ret |-> ApologyMsg, errors |-> <<SummaryError("model error")>>, exc |-> FALSE]
  ELSE [ret |-> gen.text, errors |-> <<>>, exc |-> FALSE]

\* Python truthiness of get_sql_query's result (line 339): None and the empty
\* string are false
Truthy(opt) == opt.some /\ Len(opt.val) > 0

NeedsSummary_always(result_df) == TRUE

\* line 346: the summarizer is called unless result_df.empty
NeedsSummary(result_df) == result_df.nrows # 0

\* ---------------------------------------------------------- input domains
RECURSIVE Concats(_, _)
\* the concatenations of at most n fragments of F
Concats(F, n) ==
  IF n = 0 THEN {<<>>}
  ELSE LET P == Concats(F, n - 1)
       IN  P \cup {p \o f : p \in P, f \in F}

DeleteWord == <<"D","e","l","e","t","e">>

\* responses of the generating model call: a body of SELECT / Delete / blank /
\* semicolon fragments, bare, inside a sql fence, or after an opening fence
\* that is never closed
Responses ==
  LET bodies == Concats({SelectWord, DeleteWord, Space, Semicolon}, MaxBodyFrags)
  IN  {body : body \in bodies}
      \cup {FenceOpen \o Newline \o body \o Newline \o FenceClose : body \in bodies}
      \cup {FenceOpen \o Newline \o body : body \in bodies}

GenOutcomes == {ModelRaises} \cup {ModelReturns(t) : t \in Responses}

SummaryText == "There are **42** cancelled orders."

SummaryOutcomes ==
  {[raises |-> TRUE, text |-> ""], [raises |-> FALSE, text |-> SummaryText]}

NoCall == [called |-> FALSE, raises |-> FALSE, text |-> <<>>]

NoSummaryCall == [called |-> FALSE, raises |-> FALSE, text |-> ""]

Called(gen) == [called |-> TRUE, raises |-> gen.raises, text |-> gen.text]

Questions == {"How many orders have been cancelled?"}

\* ------------------------------------------------------------------ state
VARIABLES
  pc,               \* position of the chat handler (lines 332-354)
  messages,         \* st.session_state.messages
  prompt,           \* the question being processed
  response,         \* get_sql_query's local response while it runs
  sql_query,        \* what get_sql_query returned
  store,            \* outcome of the database call of this request
  result_df,        \* what execute_sql_query returned
  summarizer,       \* outcome of the summarising model call of this request
  final_response,   \* final_response, "" while unset
  shown,            \* st.error / st.markdown output of this request, in order
  blocked,          \* keyword index the security check reported, 0 if none
  filterCalls,      \* times the security check ran in this request
  dbConnects,       \* connections requested in this request
  statementsRun,    \* statements sent to the store in this request
  summarizerCalls,  \* summarising model calls in this request
  sqlText,          \* input of the security check applied on its own
  verdict,          \* its result
  raw,              \* input of the extraction applied on its own
  extracted         \* its result

pipeVars ==
  <<pc, messages, prompt, response, sql_query, store, result_df, summarizer,
    final_response, shown, blocked, filterCalls, dbConnects, statementsRun,
    summarizerCalls>>

fnVars == <<sqlText, verdict, raw, extracted>>

vars == <<pipeVars, fnVars>>

Terminal == {"Done", "Rejected", "Failed"}

Busy == {"Generating", "Extracting", "Executing", "Summarizing"}

Unchecked == [checked |-> FALSE, safe |-> FALSE, keyword |-> 0]

NotExtracted == [done |-> FALSE, ret |-> None]

\* lines 327-328 and a fresh run of the script
PipeInit ==
  /\ pc = "Idle"
  /\ messages = <<>>
  /\ prompt = ""
  /\ response = NoCall
  /\ sql_query = None
  /\ store = NotCalled
  /\ result_df = NoFrame
  /\ summarizer = NoSummaryCall
  /\ final_response = ""
  /\ shown = <<>>
  /\ blocked = 0
  /\ filterCalls = 0
  /\ dbConnects = 0
  /\ statementsRun = 0
  /\ summarizerCalls = 0

FnIdle ==
  /\ sqlText = <<>>
  /\ verdict = Unchecked
  /\ raw = <<>>
  /\ extracted = NotExtracted

Init == PipeInit /\ FnIdle

UserEntries == {i \in 1..Len(messages) : messages[i].role = "user"}

\* lines 332-335: a question arrives (the script reruns with fresh locals;
\* only st.session_state.messages survives) and is appended to the history
Ask ==
  /\ pc \in {"Idle", "Crashed"} \cup Terminal
  /\ Cardinality(UserEntries) < MaxQuestions
  /\ \E q \in Questions :
       /\ prompt' = q
       /\ messages' = Append(messages, [role |-> "user", content |-> q])
  /\ pc' = "Generating"
  /\ response' = NoCall
  /\ sql_query' = None
  /\ store' = NotCalled
  /\ result_df' = NoFrame
  /\ summarizer' = NoSummaryCall
  /\ final_response' = ""
  /\ shown' = <<>>
  /\ blocked' = 0
  /\ filterCalls' = 0
  /\ dbConnects' = 0
  /\ statementsRun' = 0
  /\ summarizerCalls' = 0
  /\ UNCHANGED fnVars

\* line 172: model.generate_content returns a response or raises
ModelResponds ==
  /\ pc = "Generating"
  /\ \E gen \in GenOutcomes : response' = Called(gen)
  /\ pc' = "Extracting"
  /\ UNCHANGED <<messages, prompt, sql_query, store, result_df, summarizer,
                 final_response, shown, blocked, filterCalls, dbConnects,
                 statementsRun, summarizerCalls>>
  /\ UNCHANGED fnVars

\* lines 174-188, 338-341 and 352-354: the rest of get_sql_query, whose
\* local response is gone when it returns, and the rephrase error when it
\* yields nothing
Generate ==
  /\ pc = "Extracting"
  /\ \E r \in {get_sql_query(response)} :
       /\ sql_query' = r.ret
       /\ response' = NoCall
       /\ IF r.exc
          THEN /\ pc' = "Crashed"
               /\ UNCHANGED <<final_response, shown>>
          ELSE IF Truthy(r.ret)
          THEN /\ pc' = "Executing"
               /\ UNCHANGED <<final_response, shown>>
          ELSE /\ pc' = "Failed"
               /\ final_response' = RephraseMsg
               /\ shown' = Append(shown, Rendered("error", RephraseMsg, 0, ""))
  /\ UNCHANGED <<messages, prompt, store, result_df, summarizer,
                 blocked, filterCalls, dbConnects, statementsRun, summarizerCalls>>
  /\ UNCHANGED fnVars

\* lines 342-347 and 350-351: execute_sql_query, then the empty-result
\* short cut; a None result leaves the handler with nothing more rendered
Execute ==
  /\ pc = "Executing"
  /\ \E db \in StoreOutcomes :
       \E r \in {execute_sql_query(sql_query.val, db)} :
           /\ store' = IF r.connects > 0 THEN db ELSE NotCalled
           /\ result_df' = r.ret
           /\ blocked' = r.blocked
           /\ filterCalls' = filterCalls + r.checks
           /\ dbConnects' = dbConnects + r.connects
           /\ statementsRun' = statementsRun + r.statements
           /\ IF r.exc
              THEN /\ pc' = "Crashed"
                   /\ shown' = shown \o r.errors
                   /\ UNCHANGED <<final_response, messages>>
              ELSE IF r.ret.none
              THEN /\ pc' = IF r.blocked # 0 THEN "Rejected" ELSE "Failed"
                   /\ shown' = shown \o r.errors
                   /\ UNCHANGED <<final_response, messages>>
              ELSE IF NeedsSummary(r.ret)
              THEN /\ pc' = "Summarizing"
                   /\ shown' = shown \o r.errors
                   /\ UNCHANGED <<final_response, messages>>
              ELSE /\ pc' = "Done"
                   /\ final_response' = NoResultsMsg
                   /\ shown' = shown \o r.errors
                                \o <<Rendered("markdown", NoResultsMsg, 0, "")>>
                   /\ messages' = Append(messages,
                        [role |-> "assistant", content |-> NoResultsMsg])
  /\ UNCHANGED <<prompt, response, sql_query, summarizer, summarizerCalls>>
  /\ UNCHANGED fnVars

\* lines 349-351: the summarising call and the rendering of its result
Summarize ==
  /\ pc = "Summarizing"
  /\ \E gen \in SummaryOutcomes :
       \E r \in {get_natural_language_response(prompt, result_df, gen)} :
           /\ summarizer' = Called(gen)
           /\ summarizerCalls' = summarizerCalls + 1
           /\ IF r.exc
              THEN /\ pc' = "Crashed"
                   /\ shown' = shown \o r.errors
                   /\ UNCHANGED <<final_response, messages>>
              ELSE /\ pc' = "Done"
                   /\ final_response' = r.ret
                   /\ shown' = shown \o r.errors
                                \o <<Rendered("markdown", r.ret, 0, "")>>
                   /\ messages' = Append(messages,
                        [role |-> "assistant", content |-> r.ret])
  /\ UNCHANGED <<prompt, response, sql_query, store, result_df, blocked,
                 filterCalls, dbConnects, statementsRun>>
  /\ UNCHANGED fnVars

Next == Ask \/ ModelResponds \/ Generate \/ Execute \/ Summarize

Spec == Init /\ [][Next]_vars

\* a request in flight runs to the end of the handler: the three external
\* calls are synchronous and each returns or raises; only the next question
\* is up to the user
FairSpec ==
  /\ Spec
  /\ WF_vars(ModelResponds)
  /\ WF_vars(Generate)
  /\ WF_vars(Execute)
  /\ WF_vars(Summarize)

\* ------------------------------------------- the security check on its own
CreatedAt == <<"c","r","e","a","t","e","d","_","a","t">>

DropWord == <<"D","r","o","p">>

\* SQL texts: concatenations of words (a keyword in mixed case, an identifier
\* that contains a keyword, SELECT) and separators
SqlTexts ==
  Concats({SelectWord, DropWord, DeleteWord, CreatedAt, Space, Newline, Semicolon},
          MaxSqlFrags)

\* the verdict of lines 195-200 on a text: safe unless the loop stopped at a
\* keyword, which the error message then names
is_safe(text) ==
  CHOOSE v \in
    {[checked |-> TRUE, safe |-> (k = 0), keyword |-> k] :
       k \in {BlockingKeyword(text)}} : TRUE

SafetyInit ==
  /\ PipeInit
  /\ sqlText \in SqlTexts
  /\ verdict = Unchecked
  /\ raw = <<>>
  /\ extracted = NotExtracted

CheckSafety ==
  /\ ~verdict.checked
  /\ verdict' = is_safe(sqlText)
  /\ UNCHANGED <<sqlText, raw, extracted>>
  /\ UNCHANGED pipeVars

SafetySpec == SafetyInit /\ [][CheckSafety]_vars

\* ---------------------------------------------- the extraction on its own
SelectLower == <<"s","e","l","e","c","t">>

\* model responses: concatenations of fences, separators, a lower-case
\* select, a semicolon and a letter
RawResponses ==
  Concats({FenceOpen, FenceClose, Newline, Space, SelectLower, Semicolon, <<"x">>},
          MaxRespFrags)

ExtractInit ==
  /\ PipeInit
  /\ raw \in RawResponses
  /\ extracted = NotExtracted
  /\ sqlText = <<>>
  /\ verdict = Unchecked

Extract ==
  /\ ~extracted.done
  /\ \E r \in {get_sql_query(ModelReturns(raw))} :
       extracted' = [done |-> TRUE, ret |-> r.ret]
  /\ UNCHANGED <<raw, sqlText, verdict>>
  /\ UNCHANGED pipeVars

ExtractSpec == ExtractInit /\ [][Extract]_vars

\* ------------------------------------------------- vocabulary of the claims
Digits == {"0","1","2","3","4","5","6","7","8","9"}

\* a character of an identifier
IsWordChar(c) ==
  \/ c \in DOMAIN UpperOf
  \/ \E l \in DOMAIN UpperOf : UpperOf[l] = c
  \/ c = "_"
  \/ c \in Digits

\* keyword k occurs standalone in text, in any letter case: surrounded by
\* spaces, or at the very start and followed by a space
StandaloneIn(k, text) ==
  \E i \in 1..Len(text) :
    /\ OccursAtIgnoreCase(text, dangerous_keywords[k], i)
    /\ i + Len(dangerous_keywords[k]) <= Len(text)
    /\ text[i + Len(dangerous_keywords[k])] = " "
    /\ (i = 1 \/ text[i - 1] = " ")

\* keyword k is a whole word of text, in any letter case: not part of a
\* longer identifier
WordIn(k, text) ==
  \E i \in 1..Len(text) :
    /\ OccursAtIgnoreCase(text, dangerous_keywords[k], i)
    /\ (i = 1 \/ ~IsWordChar(text[i - 1]))
    /\ \/ i + Len(dangerous_keywords[k]) > Len(text)
       \/ ~IsWordChar(text[i + Len(dangerous_keywords[k])])

Keywords == 1..Len(dangerous_keywords)

\* text contains an opening sql fence and, after it, a closing fence
HasFence(text) ==
  \E o \in 1..Len(text) :
    /\ OccursAt(text, FenceOpen, o)
    /\ \E c \in (o + Len(FenceOpen))..Len(text) : OccursAt(text, FenceClose, c)

\* what lies between the first opening sql fence and the next closing fence
FenceContent(text) ==
  LET o == FindFrom(text, FenceOpen, 1)
      c == FindFrom(text, FenceClose, o + Len(FenceOpen))
  IN  SubSeq(text, o + Len(FenceOpen), c - 1)

\* text contains SELECT in any letter case and, after it, a semicolon
HasSelectSemicolon(text) ==
  \E o \in 1..Len(text) :
    /\ OccursAtIgnoreCase(text, SelectWord, o)
    /\ \E c \in (o + Len(SelectWord))..Len(text) : text[c] = ";"

\* the first word of text is DELETE in any letter case, followed by
\* whitespace or punctuation
FirstWordIsDelete(text) ==
  /\ OccursAtIgnoreCase(text, dangerous_keywords[1], 1)
  /\ Len(text) > Len(dangerous_keywords[1])
  /\ ~IsWordChar(text[Len(dangerous_keywords[1]) + 1])

RephraseError == Rendered("error", RephraseMsg, 0, "")

\* ------------------------------------------------------------------ claims

\* C1: once the security check has matched a dangerous keyword, the request
\* is Rejected and nothing was executed: no connection was requested, no
\* statement was sent, the store was not called and the summarizer was not
\* called.
C1_RejectedNeverExecutes ==
  blocked # 0 =>
    /\ pc = "Rejected"
    /\ result_df = NoFrame
    /\ store = NotCalled
    /\ dbConnects = 0
    /\ statementsRun = 0
    /\ summarizerCalls = 0
    /\ shown = <<BlockedError(blocked)>>

C1_Witness == pc = "Rejected" /\ blocked # 0 /\ filterCalls = 1

\* C2 (as claimed): a generated query whose first word is DELETE, in any
\* letter case and followed by whitespace or punctuation, is rejected before
\* any execution: once execute_sql_query has run the request is Rejected and
\* the store was never reached.
C2_DeleteRejected ==
  (sql_query.some /\ FirstWordIsDelete(sql_query.val)
     /\ pc \notin {"Extracting", "Executing"}) =>
    /\ pc = "Rejected"
    /\ dbConnects = 0
    /\ statementsRun = 0

C4_EmptySkipsSummarizer ==
  (~result_df.none /\ result_df.nrows = 0) =>
    /\ pc = "Done"
    /\ summarizerCalls = 0
    /\ summarizer = NoSummaryCall
    /\ final_response = NoResultsMsg

C4_Witness ==
  pc = "Done" /\ result_df = Frame(0) /\ store.kind = "rows" /\ dbConnects = 1

\* C5: when the generating call raised, or its response holds neither a sql
\* fence nor a SELECT...; substring, get_sql_query yields None and the handler
\* goes straight to Failed with the rephrase message; a request that failed
\* that way never ran the security check or reached the store.
C5_AbsentQueryFails ==
  /\ [][(/\ pc = "Extracting"
         /\ \/ response.raises
            \/ ~HasFence(response.text) /\ ~HasSelectSemicolon(response.text))
        => (/\ pc' = "Failed"
            /\ sql_query' = None
            /\ final_response' = RephraseMsg
            /\ shown' = <<RephraseError>>)]_vars
  /\ []((pc = "Failed" /\ final_response = RephraseMsg) =>
          /\ filterCalls = 0
          /\ dbConnects = 0
          /\ statementsRun = 0
          /\ summarizerCalls = 0)

C5_Witness ==
  /\ pc = "Failed"
  /\ sql_query = None
  /\ final_response = RephraseMsg
  /\ filterCalls = 0

\* C6: when the store rejected the statement or the connection failed, the
\* request is Failed, the one thing rendered is the execution error carrying
\* the store's message, and the summarizer was not called.
C6_StoreErrorFails ==
  store.kind \in {"sql_error", "connect_error"} =>
    /\ pc = "Failed"
    /\ result_df = NoFrame
    /\ shown = <<ExecutionError(store.msg)>>
    /\ summarizerCalls = 0

C6_Witness ==
  pc = "Failed" /\ store.kind = "sql_error" /\ statementsRun = 1

\* C7: whatever the three external calls do, no exception leaves the handler,
\* a request in flight reaches Done, Rejected or Failed, and there the last
\* thing rendered is the final response (Done) or an error message.
C7_AlwaysTerminates ==
  /\ [](pc # "Crashed")
  /\ (pc \in Busy) ~> (pc \in Terminal)
  /\ [](pc \in Terminal =>
          /\ shown # <<>>
          /\ IF pc = "Done"
             THEN shown[Len(shown)] = Rendered("markdown", final_response, 0, "")
             ELSE shown[Len(shown)].kind = "error")

C7_Witness ==
  /\ pc = "Done"
  /\ summarizer.called
  /\ summarizer.raises
  /\ final_response = ApologyMsg

\* C8: a text in which a dangerous keyword occurs standalone (any letter
\* case; between spaces, or leading and followed by a space) is judged unsafe,
\* and the keyword named occurs standalone in it.
C8_StandaloneKeywordUnsafe ==
  verdict.checked =>
    \A k \in Keywords :
      StandaloneIn(k, sqlText) =>
        /\ ~verdict.safe
        /\ verdict.keyword \in Keywords
        /\ StandaloneIn(verdict.keyword, sqlText)

C8_Witness ==
  /\ verdict.checked
  /\ ~verdict.safe
  /\ dangerous_keywords[verdict.keyword] = Upper(DropWord)
  /\ Contains(sqlText, Space \o DropWord \o Space)

\* C9: a text none of whose words is a dangerous keyword is judged safe, also
\* when a keyword is part of an identifier such as created_at.
C9_KeywordFreeSafe ==
  (verdict.checked /\ \A k \in Keywords : ~WordIn(k, sqlText)) => verdict.safe

C9_Witness ==
  /\ verdict.checked
  /\ verdict.safe
  /\ Contains(sqlText, Space \o CreatedAt \o Space)
  /\ \A k \in Keywords : ~WordIn(k, sqlText)

\* C10 (as claimed): from a response that contains a sql fence, the
\* extraction returns the fenced content trimmed of surrounding whitespace,
\* whatever follows the opening fence or precedes the closing one.
C10_FencedContentExtracted ==
  (extracted.done /\ HasFence(raw)) =>
    extracted.ret = Some(Strip(FenceContent(raw)))

====
